---- MODULE Spec2Model ----
(***************************************************************************)
(* A model of eleveldb's asynchronous dispatch layer (c_src/eleveldb.cc):  *)
(* the NIF entry points running on the caller thread, the reference        *)
(* counted database and iterator handles, the work queue with its worker   *)
(* threads, and the iterator move / prefetch handoff protocol.             *)
(*                                                                         *)
(* eleveldb.cc is modelled from its source.  The classes it uses but does  *)
(* not define (ErlRefObject/DbObject/ItrObject, WorkTask and its           *)
(* subclasses, eleveldb_thread_pool) are modelled from the design          *)
(* document, sections 3, 4.1-4.4; every such definition says so.           *)
(***************************************************************************)
EXTENDS Integers, Sequences, FiniteSets, TLC

\* ---------------------------------------------------------------- bounds
\* The number of NIF calls the caller issues in one behaviour.
MaxReq == 5
\* The number of Write and of Get work items the caller has built in all.
MaxWrites == 1
MaxGets == 1
\* The number of submissions the thread pool refuses in one behaviour.
MaxRefused == 1
\* The number of worker threads of the pool (write_threads).
NThreads == 2
\* The number of distinct keys the storage engine may hold.
NKeys == 2

\* A null pointer (reuse_move=NULL).
NULL == 0

Ids == 1..MaxReq
Threads == 1..NThreads
Keys == 1..NKeys

VARIABLES
    nreq,    \* number of NIF calls issued; the next call's caller_ref is nreq+1
    call,    \* the NIF of the latest call
    cpc,     \* where the caller thread is inside the NIF it is executing
    creq,    \* the arguments and locals of the NIF the caller is executing
    dbh,     \* the Database Handle (DbObject)
    ith,     \* the Iterator Handle (ItrObject and the iterator it wraps)
    data,    \* the storage engine's contents: key -> value, 0 when absent
    items,   \* the Work Items, by the id of the call that built them
    queue,   \* the thread pool's work queue
    wk,      \* the worker threads: program counter, item, result
    sent,    \* messages sent to the caller, by the call they answer
    ret      \* the term each NIF call returned

vars == <<nreq, call, cpc, creq, dbh, ith, data, items, queue, wk, sent, ret>>

\* ----------------------------------------------------------------- terms
\* An Erlang term as far as the model tells terms apart: a tag and up to
\* three components (a reference, a key, a value), 0 where there is none.
Term(tag, ref, key, val) == [tag |-> tag, ref |-> ref, key |-> key, val |-> val]

NoTerm == Term("none", 0, 0, 0)

\* enif_make_badarg
BadArg == Term("badarg", 0, 0, 0)

\* eleveldb::ATOM_OK
AtomOk == Term("ok", 0, 0, 0)

\* {error, einval}
error_einval == Term("error_einval", 0, 0, 0)

\* {error, caller_ref}: the reply of a failed submission
ErrorRef(ref) == Term("error_ref", ref, 0, 0)

\* {einval, caller_ref}: the return of a move with a bad seek target
EinvalRef(ref) == Term("einval_ref", ref, 0, 0)

\* enif_make_copy(env, itr_ref): "await a message carrying this reference"
RefTerm(ref) == Term("ref", ref, 0, 0)

\* {error, invalid_iterator}
InvalidIterator == Term("invalid_iterator", 0, 0, 0)

\* ------------------------------------------------------- storage engine
SetMin(S) == CHOOSE x \in S : \A y \in S : x <= y

SetMax(S) == CHOOSE x \in S : \A y \in S : x >= y

Present(snap) == {k \in Keys : snap[k] # 0}

\* Iterator::SeekToFirst
SeekToFirst(snap) == IF Present(snap) = {} THEN 0 ELSE SetMin(Present(snap))

\* Iterator::SeekToLast
SeekToLast(snap) == IF Present(snap) = {} THEN 0 ELSE SetMax(Present(snap))

\* Iterator::Seek(target): the first entry at or after target
SeekTo(snap, t) ==
    LET S == {k \in Present(snap) : k >= t}
    IN IF S = {} THEN 0 ELSE SetMin(S)

\* Iterator::Next, called only on a valid iterator
NextPos(snap, p) ==
    LET S == {k \in Present(snap) : k > p}
    IN IF p = 0 \/ S = {} THEN 0 ELSE SetMin(S)

\* Iterator::Prev, called only on a valid iterator
PrevPos(snap, p) ==
    LET S == {k \in Present(snap) : k < p}
    IN IF p = 0 \/ S = {} THEN 0 ELSE SetMax(S)

\* The position a Move Work Item leaves the iterator at.
MovePos(action, target, snap, p) ==
    CASE action = "first" -> SeekToFirst(snap)
      [] action = "last" -> SeekToLast(snap)
      [] action = "next" -> NextPos(snap, p)
      [] action = "prefetch" -> NextPos(snap, p)
      [] action = "prev" -> PrevPos(snap, p)
      [] OTHER -> SeekTo(snap, target)

\* PosTerm without the test of Valid(): a position is reported whether or
\* not the iterator has one.
PosTerm_unchecked(snap, p, keysOnly) ==
    IF keysOnly THEN Term("ok_key", 0, p, 0)
    ELSE Term("ok_kv", 0, p, IF p = 0 THEN 0 ELSE snap[p])

\* The reply built from an iterator's position: {error, invalid_iterator},
\* {ok, Key} when keys_only, {ok, Key, Value} otherwise.
PosTerm(snap, p, keysOnly) ==
    IF p = 0 THEN InvalidIterator
    ELSE IF keysOnly THEN Term("ok_key", 0, p, 0)
    ELSE Term("ok_kv", 0, p, snap[p])

\* ------------------------------------------------------ resource objects
\* A Resource Object before its creation.
NoHandle == [st |-> "none", refcount |-> 0, closing |-> FALSE, ndestroy |-> 0]

\* A Database Handle as the Open work item creates it: one reference, the
\* caller's own.
NewDb == [st |-> "live", refcount |-> 1, closing |-> FALSE, ndestroy |-> 0]

\* The Iterator Handle before CreateIterator has run.
NoItr ==
    [st |-> "none", refcount |-> 0, closing |-> FALSE, ndestroy |-> 0,
     handoff |-> 0, started |-> FALSE, reuse |-> NULL, keysOnly |-> FALSE,
     pos |-> 0, snap |-> [k \in Keys |-> 0], ref |-> 0]

\* An Iterator Handle as the CreateIterator work item creates it: a snapshot
\* of the database, an unpositioned iterator, the creating call's reference.
NewItr(ref, keysOnly, snap) ==
    [NoItr EXCEPT !.st = "live", !.refcount = 1, !.keysOnly = keysOnly,
                  !.snap = snap, !.ref = ref]

\* acquire(): one more strong reference.
Acquire(h) == [h EXCEPT !.refcount = @ + 1]

\* release(): one reference less; the thread that brings the count to zero
\* on a closing object destroys it, releasing the engine resource it owns.
Release(h) ==
    IF h.refcount - 1 = 0 /\ h.closing
    THEN [h EXCEPT !.refcount = 0, !.st = "dead",
                   !.ndestroy = IF @ < 2 THEN @ + 1 ELSE @]
    ELSE [h EXCEPT !.refcount = @ - 1]

\* RetrieveDbObject / RetrieveItrObject: the object behind a handle token,
\* or NULL once close has been initiated on it.
Resolvable(h) == h.st # "none" /\ ~h.closing

\* ------------------------------------------------------------ work items
NoItem ==
    [kind |-> "none", ref |-> 0, action |-> "none", arg |-> 0,
     batch |-> <<>>, st |-> "none", held |-> FALSE]

\* A Work Item as its constructor leaves it: not yet submitted.
NewItem(kind, ref, action, arg, batch) ==
    [kind |-> kind, ref |-> ref, action |-> action, arg |-> arg,
     batch |-> batch, st |-> "new", held |-> FALSE]

DbKinds == {"write", "get", "iter"}

\* A deleted Work Item: its memory is gone; the model keeps its kind, its
\* action and how it ended: "done" after it ran, "refused" when the pool did
\* not take it, "gone" when it was dropped before its submission.
Deleted(item, how) ==
    [NoItem EXCEPT !.kind = item.kind, !.action = item.action, !.st = how]

\* ItrObject::ReleaseReuseMove, the Iterator Handle's part: the slot is
\* emptied; if the slot's reference was the item's last one the item is
\* deleted and gives up its reference to the handle.
RRM_ith(it, its) ==
    IF it.reuse = NULL THEN it
    ELSE IF its[it.reuse].st \in {"new", "idle"}
         THEN Release([it EXCEPT !.reuse = NULL])
         ELSE [it EXCEPT !.reuse = NULL]

\* ItrObject::ReleaseReuseMove, the Work Item's part: the slot's extra
\* reference is dropped, and the item deleted if that was its last one.
RRM_items(it, its) ==
    IF it.reuse = NULL THEN its
    ELSE [its EXCEPT ![it.reuse] =
             IF @.st = "idle" THEN Deleted(@, "done")
             ELSE IF @.st = "new" THEN Deleted(@, "gone")
             ELSE [@ EXCEPT !.held = FALSE]]

\* ------------------------------------------------------------------ init
NoReq == [id |-> 0, action |-> "none", arg |-> 0, ret |-> NoTerm, quiet |-> TRUE]

IdleWorker == [pc |-> "idle", id |-> 0, res |-> NoTerm]

Init ==
    /\ nreq = 0
    /\ call = "none"
    /\ cpc = "idle"
    /\ creq = NoReq
    /\ dbh = NoHandle
    /\ ith = NoItr
    /\ data = [k \in Keys |-> 0]
    /\ items = [i \in Ids |-> NoItem]
    /\ queue = <<>>
    /\ wk = [w \in Threads |-> IdleWorker]
    /\ sent = [i \in Ids |-> <<>>]
    /\ ret = [i \in Ids |-> NoTerm]

\* ------------------------------------------------------- dispatch layer
\* send_reply sending its message twice.
send_reply_twice(msgs, id, ref, reply) ==
    [msgs EXCEPT ![id] = Append(Append(@, [ref |-> ref, body |-> reply]),
                                [ref |-> ref, body |-> reply])]

\* send_reply: one message {ref, reply} to the calling process.
send_reply(msgs, id, ref, reply) ==
    [msgs EXCEPT ![id] = Append(@, [ref |-> ref, body |-> reply])]

\* The caller holds a handle token once the reply carrying it was sent.
HasToken(tag) ==
    \E i \in Ids : \E j \in 1..Len(sent[i]) : sent[i][j].body.tag = tag

\* A call is in flight for a Work Item of this kind.
Pending(kind) == \E i \in Ids : items[i].kind = kind /\ items[i].st \in {"queued", "run"}

\* The number of Work Items of this kind built so far.
Built(kind) == Cardinality({i \in Ids : items[i].kind = kind})

\* The number of submissions the pool has refused.
Refused == Cardinality({i \in Ids : items[i].st = "refused"})

\* eleveldb_thread_pool::submit: the queue with the item appended, or the
\* queue as it was when the pool cannot accept the item.
Submit(q, id, ok) == IF ok THEN Append(q, id) ELSE q

\* Batch entries as Erlang terms: clear, {put,K,V}, {delete,K}, or any
\* other term.
Put(k, v) == [op |-> "put", k |-> k, v |-> v]

Del(k) == [op |-> "delete", k |-> k, v |-> 0]

Clear == [op |-> "clear", k |-> 0, v |-> 0]

Bad == [op |-> "bad", k |-> 0, v |-> 0]

\* An atom other than clear.
Atom == [op |-> "atom", k |-> 0, v |-> 0]

\* The batch lists the caller writes.  The fourth one is the round trip's,
\* [{put, k1, v1}, {put, k2, v2}, {delete, k1}], and is written by the
\* caller of the round trip only; the ones after it hold an atom that is
\* not clear and are written by the caller of the batch validation only.
BatchMenu ==
    << <<Put(1, 1), Put(2, 1)>>,
       <<Put(1, 1), Clear, Put(2, 1), Put(1, 1), Del(2)>>,
       <<Put(2, 1), Bad>>,
       <<Put(1, 1), Put(2, 2), Del(1)>>,
       <<Put(2, 1), Atom>>,
       <<Atom, Put(1, 1)>>,
       <<Del(1), Atom, Bad>> >>

RoundTrip == 4

\* enif_get_tuple stores the arity and the elements of a tuple and leaves
\* arity and action alone when the term is no tuple.
Tuples == {"put", "delete", "bad"}

\* What the locals arity and action of write_batch_item can still hold
\* from the call before, when entry n of the list is no tuple: the elements
\* of the last tuple among the entries before it, if there is one.
NoEntry == [op |-> "none", k |-> 0, v |-> 0]

RECURSIVE Stale(_, _)
Stale(list, n) ==
    IF n = 1 THEN NoEntry
    ELSE IF list[n - 1].op \in Tuples THEN list[n - 1]
    ELSE Stale(list, n - 1)

\* The outcomes of reading action[0] when action was never assigned: the
\* word read is neither put nor delete ("item"), the locals still hold the
\* tuple of the call before ("stale"), or the read faults and the emulator
\* dies ("crash").  A list without such an atom has the one outcome.
Outcomes(list) ==
    IF \E n \in 1..Len(list) : list[n].op = "atom"
    THEN {"item", "stale", "crash"}
    ELSE {"item"}

\* write_batch_item putting each entry in front of the batch: the batch is
\* applied in the reverse of the list's order.
write_batch_item_front(item, batch, stale, u) ==
    IF item.op = "clear" THEN [res |-> "ok", batch |-> <<>>]
    ELSE IF item.op \in {"put", "delete"}
    THEN [res |-> "ok", batch |-> <<item>> \o batch]
    ELSE [res |-> "item", batch |-> batch]

\* write_batch_item: the batch with one entry added (Clear empties the
\* batch), or the entry itself when it is no clear, put or delete.  An atom
\* that is not clear passes the test "tuple or atom" with arity and action
\* unassigned, and action[0] is read all the same: with outcome u the entry
\* is returned, or taken for the tuple stale and added once more, or the
\* emulator dies.
write_batch_item(item, batch, stale, u) ==
    IF item.op = "clear" THEN [res |-> "ok", batch |-> <<>>]
    ELSE IF item.op \in {"put", "delete"}
    THEN [res |-> "ok", batch |-> Append(batch, item)]
    ELSE IF item.op = "atom" /\ u = "crash"
    THEN [res |-> "crash", batch |-> batch]
    ELSE IF item.op = "atom" /\ u = "stale" /\ stale.op \in {"put", "delete"}
    THEN [res |-> "ok", batch |-> Append(batch, stale)]
    ELSE [res |-> "item", batch |-> batch]

\* fold(env, list, write_batch_item, batch), from entry n on: stops at the
\* first entry that does not return ok, which is entry n of its result.
RECURSIVE fold(_, _, _, _)
fold(list, n, batch, u) ==
    IF n > Len(list) THEN [res |-> "ok", batch |-> batch, n |-> 0]
    ELSE LET r == write_batch_item(list[n], batch, Stale(list, n), u)
         IN IF r.res = "ok" THEN fold(list, n + 1, r.batch, u)
            ELSE [res |-> r.res, batch |-> r.batch, n |-> n]

\* SubmitOrReply with the Work Item taking no reference to the Database
\* Handle it works on.
SubmitOrReply_noref(id, item, ok) ==
    /\ ok \/ Refused < MaxRefused
    /\ queue' = Submit(queue, id, ok)
    /\ items' = [items EXCEPT ![id] = IF ok THEN [item EXCEPT !.st = "queued"]
                                              ELSE Deleted(item, "refused")]
    /\ sent' = IF ok THEN sent ELSE send_reply(sent, id, item.ref, ErrorRef(item.ref))
    /\ dbh' = dbh
    /\ ret' = [ret EXCEPT ![id] = AtomOk]

\* SubmitOrReply without the delete of a refused Work Item: the item's
\* reference to the Database Handle is never given back.
SubmitOrReply_leak(id, item, ok) ==
    /\ ok \/ Refused < MaxRefused
    /\ queue' = Submit(queue, id, ok)
    /\ items' = [items EXCEPT ![id] = IF ok THEN [item EXCEPT !.st = "queued"]
                                              ELSE Deleted(item, "refused")]
    /\ sent' = IF ok THEN sent ELSE send_reply(sent, id, item.ref, ErrorRef(item.ref))
    /\ dbh' = IF item.kind \in DbKinds THEN Acquire(dbh) ELSE dbh
    /\ ret' = [ret EXCEPT ![id] = AtomOk]

\* The submission every NIF ends with: hand the item to the pool; when the
\* pool refuses it, delete it and send {error, caller_ref}.  The item holds
\* a reference to the Database Handle from its construction to its deletion.
SubmitOrReply(id, item, ok) ==
    /\ ok \/ Refused < MaxRefused
    /\ queue' = Submit(queue, id, ok)
    /\ items' = [items EXCEPT ![id] = IF ok THEN [item EXCEPT !.st = "queued"]
                                              ELSE Deleted(item, "refused")]
    /\ sent' = IF ok THEN sent ELSE send_reply(sent, id, item.ref, ErrorRef(item.ref))
    /\ dbh' = IF item.kind \in DbKinds /\ ok THEN Acquire(dbh) ELSE dbh
    /\ ret' = [ret EXCEPT ![id] = AtomOk]

\* A NIF that returns before it builds a Work Item.
ReturnEarly(id, term, msgs) ==
    /\ ret' = [ret EXCEPT ![id] = term]
    /\ sent' = msgs
    /\ UNCHANGED <<items, queue, dbh>>

async_open(ok) ==
    /\ cpc = "idle" /\ nreq < MaxReq
    /\ dbh.st = "none" /\ ~Pending("open")
    /\ nreq' = nreq + 1
    /\ call' = "open"
    /\ SubmitOrReply(nreq + 1, NewItem("open", nreq + 1, "none", 0, <<>>), ok)
    /\ UNCHANGED <<cpc, creq, ith, data, wk>>

async_write(b, ok) ==
    /\ cpc = "idle" /\ nreq < MaxReq
    /\ HasToken("ok_db") /\ Built("write") < MaxWrites
    /\ nreq' = nreq + 1
    /\ call' = "write"
    /\ \E u \in Outcomes(BatchMenu[b]) :
         LET id == nreq + 1
             r == fold(BatchMenu[b], 1, <<>>, u)
             crash == Resolvable(dbh) /\ dbh.st = "live" /\ r.res = "crash"
         IN /\ IF ~Resolvable(dbh) THEN ReturnEarly(id, BadArg, sent)
               ELSE IF dbh.st # "live"
               THEN ReturnEarly(id, AtomOk, send_reply(sent, id, id, error_einval))
               ELSE IF crash THEN ReturnEarly(id, NoTerm, sent)
               ELSE IF r.res # "ok"
               THEN ReturnEarly(id, AtomOk,
                                send_reply(sent, id, id,
                                           Term("bad_write_action", id, b, r.n)))
               ELSE SubmitOrReply(id, NewItem("write", id, "none", 0, r.batch), ok)
            /\ cpc' = IF crash THEN "crashed" ELSE cpc
    /\ UNCHANGED <<creq, ith, data, wk>>

\* async_get without the test of RetrieveDbObject's result.
async_get_unchecked(key, ok) ==
    /\ cpc = "idle" /\ nreq < MaxReq
    /\ HasToken("ok_db") /\ Built("get") < MaxGets
    /\ nreq' = nreq + 1
    /\ call' = "get"
    /\ LET id == nreq + 1
       IN IF dbh.st # "live"
          THEN ReturnEarly(id, AtomOk, send_reply(sent, id, id, error_einval))
          ELSE SubmitOrReply(id, NewItem("get", id, "none", key, <<>>), ok)
    /\ UNCHANGED <<cpc, creq, ith, data, wk>>

async_get(key, ok) ==
    /\ cpc = "idle" /\ nreq < MaxReq
    /\ HasToken("ok_db") /\ Built("get") < MaxGets
    /\ nreq' = nreq + 1
    /\ call' = "get"
    /\ LET id == nreq + 1
       IN IF ~Resolvable(dbh) THEN ReturnEarly(id, BadArg, sent)
          ELSE IF dbh.st # "live"
          THEN ReturnEarly(id, AtomOk, send_reply(sent, id, id, error_einval))
          ELSE SubmitOrReply(id, NewItem("get", id, "none", key, <<>>), ok)
    /\ UNCHANGED <<cpc, creq, ith, data, wk>>

\* async_iterator without the test of m_Db.
async_iterator_nulldb(keysOnly, ok) ==
    /\ cpc = "idle" /\ nreq < MaxReq
    /\ HasToken("ok_db")
    /\ ith.st = "none" /\ ~Pending("iter")
    /\ nreq' = nreq + 1
    /\ call' = "iterator"
    /\ LET id == nreq + 1
       IN IF ~Resolvable(dbh) THEN ReturnEarly(id, BadArg, sent)
          ELSE SubmitOrReply(id, NewItem("iter", id, "none",
                                         IF keysOnly THEN 1 ELSE 0, <<>>), ok)
    /\ UNCHANGED <<cpc, creq, ith, data, wk>>

async_iterator(keysOnly, ok) ==
    /\ cpc = "idle" /\ nreq < MaxReq
    /\ HasToken("ok_db")
    /\ ith.st = "none" /\ ~Pending("iter")
    /\ nreq' = nreq + 1
    /\ call' = "iterator"
    /\ LET id == nreq + 1
       IN IF ~Resolvable(dbh) THEN ReturnEarly(id, BadArg, sent)
          ELSE IF dbh.st # "live"
          THEN ReturnEarly(id, AtomOk, send_reply(sent, id, id, error_einval))
          ELSE SubmitOrReply(id, NewItem("iter", id, "none",
                                         IF keysOnly THEN 1 ELSE 0, <<>>), ok)
    /\ UNCHANGED <<cpc, creq, ith, data, wk>>

\* -------------------------------------------------------------- closing
\* ErlRefObject::InitiateCloseRequest, first half: the closing flag is set.
MarkClosing(h) == [h EXCEPT !.closing = TRUE]

\* eleveldb_close without the test of RetrieveDbObject's result.
eleveldb_close_unchecked ==
    /\ cpc = "idle" /\ nreq < MaxReq
    /\ HasToken("ok_db")
    /\ nreq' = nreq + 1
    /\ call' = "close"
    /\ cpc' = "close_mark"
    /\ creq' = [NoReq EXCEPT !.id = nreq + 1, !.action = "db"]
    /\ UNCHANGED <<dbh, ith, data, items, queue, wk, sent, ret>>

eleveldb_close ==
    /\ cpc = "idle" /\ nreq < MaxReq
    /\ HasToken("ok_db")
    /\ nreq' = nreq + 1
    /\ call' = "close"
    /\ IF Resolvable(dbh)
       THEN /\ cpc' = "close_mark"
            /\ creq' = [NoReq EXCEPT !.id = nreq + 1, !.action = "db"]
            /\ ret' = ret
       ELSE /\ ret' = [ret EXCEPT ![nreq + 1] = BadArg]
            /\ UNCHANGED <<cpc, creq>>
    /\ UNCHANGED <<dbh, ith, data, items, queue, wk, sent>>

\* eleveldb_iterator_close without the test of RetrieveItrObject's result.
eleveldb_iterator_close_unchecked ==
    /\ cpc = "idle" /\ nreq < MaxReq
    /\ HasToken("ok_itr")
    /\ nreq' = nreq + 1
    /\ call' = "iterator_close"
    /\ ith' = RRM_ith(ith, items)
    /\ items' = RRM_items(ith, items)
    /\ cpc' = "close_mark"
    /\ creq' = [NoReq EXCEPT !.id = nreq + 1, !.action = "itr"]
    /\ UNCHANGED <<dbh, data, queue, wk, sent, ret>>

eleveldb_iterator_close ==
    /\ cpc = "idle" /\ nreq < MaxReq
    /\ HasToken("ok_itr")
    /\ nreq' = nreq + 1
    /\ call' = "iterator_close"
    /\ IF Resolvable(ith)
       THEN /\ ith' = RRM_ith(ith, items)
            /\ items' = RRM_items(ith, items)
            /\ cpc' = "close_mark"
            /\ creq' = [NoReq EXCEPT !.id = nreq + 1, !.action = "itr"]
            /\ ret' = ret
       ELSE /\ ret' = [ret EXCEPT ![nreq + 1] = BadArg]
            /\ UNCHANGED <<cpc, creq, ith, items>>
    /\ UNCHANGED <<dbh, data, queue, wk, sent>>

\* InitiateCloseRequest sets the closing flag ...
InitiateCloseRequest ==
    /\ cpc = "close_mark"
    /\ cpc' = "close_release"
    /\ IF creq.action = "db"
       THEN dbh' = MarkClosing(dbh) /\ ith' = ith
       ELSE ith' = MarkClosing(ith) /\ dbh' = dbh
    /\ UNCHANGED <<nreq, call, creq, data, items, queue, wk, sent, ret>>

\* ... and then gives up the caller's own reference; the NIF returns ok.
CloseRelease ==
    /\ cpc = "close_release"
    /\ cpc' = "idle"
    /\ creq' = NoReq
    /\ IF creq.action = "db"
       THEN dbh' = Release(dbh) /\ ith' = ith
       ELSE ith' = Release(ith) /\ dbh' = dbh
    /\ ret' = [ret EXCEPT ![creq.id] = AtomOk]
    /\ UNCHANGED <<nreq, call, data, items, queue, wk, sent>>

\* ------------------------------------------------- synchronous queries
\* eleveldb::ATOM_ERROR, GetProperty's failure
AtomError == Term("error", 0, 0, 0)

\* {ok, Value}, the value of an engine property
OkProperty == Term("ok_property", 0, 0, 0)

\* eleveldb::ATOM_TRUE and eleveldb::ATOM_FALSE
AtomBool(b) == IF b THEN Term("true", 0, 0, 0) ELSE Term("false", 0, 0, 0)

\* eleveldb_status runs on the caller's thread: badarg for a handle that
\* does not resolve or a name that is no binary, einval for a handle
\* without a connection, otherwise what GetProperty finds.
eleveldb_status(nameok, found) ==
    /\ cpc = "idle" /\ nreq < MaxReq
    /\ HasToken("ok_db")
    /\ nreq' = nreq + 1
    /\ call' = "status"
    /\ ret' = [ret EXCEPT ![nreq + 1] =
                  IF ~(Resolvable(dbh) /\ nameok) THEN BadArg
                  ELSE IF dbh.st # "live" THEN error_einval
                  ELSE IF found THEN OkProperty ELSE AtomError]
    /\ UNCHANGED <<cpc, creq, dbh, ith, data, items, queue, wk, sent>>

\* eleveldb_is_empty runs on the caller's thread: badarg for a handle that
\* does not resolve, einval for a handle without a connection, otherwise
\* whether an iterator of the engine, moved to the first entry, is valid.
eleveldb_is_empty ==
    /\ cpc = "idle" /\ nreq < MaxReq
    /\ HasToken("ok_db")
    /\ nreq' = nreq + 1
    /\ call' = "is_empty"
    /\ ret' = [ret EXCEPT ![nreq + 1] =
                  IF ~Resolvable(dbh) THEN BadArg
                  ELSE IF dbh.st # "live" THEN error_einval
                  ELSE AtomBool(SeekToFirst(data) = 0)]
    /\ UNCHANGED <<cpc, creq, dbh, ith, data, items, queue, wk, sent>>

\* ------------------------------------------------- async_iterator_move
MoveActions == {"first", "last", "next", "prev", "prefetch", "seek"}

\* The actions the caller asks for, and the seek targets it passes: 0 is a
\* target that is no binary.
MoveMenu == {"first", "next", "prefetch"}

SeekMenu == {0, NKeys}

\* A worker thread is inside the storage engine, stepping the iterator.
Stepping == \E w \in Threads : wk[w].pc = "exec" /\ items[wk[w].id].kind = "move"

\* What a read of the iterator's position yields: the position, or anything
\* when another thread is stepping the iterator at that moment.
ReadItr ==
    IF Stepping
    THEN {PosTerm(ith.snap, p, ith.keysOnly) : p \in {0} \cup Present(ith.snap)}
    ELSE {PosTerm(ith.snap, ith.pos, ith.keysOnly)}

\* MoveSubmit without the test that a seek target is a binary.
MoveSubmit_anytarget(id, action, arg, term, it, its, ok) ==
    LET item == [NewItem("move", it.ref, action, arg, <<>>) EXCEPT !.held = TRUE]
        its1 == [its EXCEPT ![id] = item]
        it1 == [Acquire(it) EXCEPT !.reuse = id]
    IN /\ ok \/ Refused < MaxRefused
       /\ IF ~ok
          THEN /\ ith' = Release([RRM_ith(it1, its1) EXCEPT !.reuse = NULL])
               /\ items' = [RRM_items(it1, its1) EXCEPT ![id].st = "refused"]
               /\ queue' = queue
               /\ ret' = [ret EXCEPT ![id] = ErrorRef(it.ref)]
          ELSE /\ ith' = Release(it1)
               /\ items' = [its1 EXCEPT ![id].st = "queued"]
               /\ queue' = Submit(queue, id, ok)
               /\ ret' = [ret EXCEPT ![id] = term]

\* MoveSubmit leaving the rejected MoveTask in the reuse_move slot: neither
\* ReleaseReuseMove nor reuse_move=NULL on the two error returns.
MoveSubmit_keepslot(id, action, arg, term, it, its, ok) ==
    LET bad == action = "seek" /\ arg = 0
        item == [NewItem("move", it.ref, action, arg, <<>>) EXCEPT !.held = TRUE]
        its1 == [its EXCEPT ![id] = item]
        it1 == [Acquire(it) EXCEPT !.reuse = id]
    IN /\ bad => ok
       /\ ok \/ Refused < MaxRefused
       /\ IF bad \/ ~ok
          THEN /\ ith' = Release(Release(it1))
               /\ items' = [its1 EXCEPT ![id] =
                                Deleted(@, IF bad THEN "gone" ELSE "refused")]
               /\ queue' = queue
               /\ ret' = [ret EXCEPT ![id] =
                             IF bad THEN EinvalRef(it.ref) ELSE ErrorRef(it.ref)]
          ELSE /\ ith' = Release(it1)
               /\ items' = [its1 EXCEPT ![id].st = "queued"]
               /\ queue' = Submit(queue, id, ok)
               /\ ret' = [ret EXCEPT ![id] = term]

\* "only build request if actually need to submit it": the new MoveTask takes
\* the reuse_move slot with an extra reference; a seek target that is no
\* binary, or a refused submission, releases it again and returns an error
\* term.  At the return the call's own reference (itr_ptr) is given up.
\* it and its are the handle and the items as the call has left them so far.
MoveSubmit(id, action, arg, term, it, its, ok) ==
    LET bad == action = "seek" /\ arg = 0
        item == [NewItem("move", it.ref, action, arg, <<>>) EXCEPT !.held = TRUE]
        its1 == [its EXCEPT ![id] = item]
        it1 == [Acquire(it) EXCEPT !.reuse = id]
    IN /\ bad => ok
       /\ ok \/ Refused < MaxRefused
       /\ IF bad \/ ~ok
          THEN /\ ith' = Release([RRM_ith(it1, its1) EXCEPT !.reuse = NULL])
               /\ items' = [RRM_items(it1, its1) EXCEPT ![id].st =
                                IF bad THEN "gone" ELSE "refused"]
               /\ queue' = queue
               /\ ret' = [ret EXCEPT ![id] =
                             IF bad THEN EinvalRef(it.ref) ELSE ErrorRef(it.ref)]
          ELSE /\ ith' = Release(it1)
               /\ items' = [its1 EXCEPT ![id].st = "queued"]
               /\ queue' = Submit(queue, id, ok)
               /\ ret' = [ret EXCEPT ![id] = term]

\* case 1, not a prefetch: the previous move is released, the reply forced
\* to be a message (m_HandoffAtomic=1), and a new MoveTask submitted.
MoveCase1(id, action, arg, ok) ==
    /\ MoveSubmit(id, action, arg, RefTerm(ith.ref),
                  [RRM_ith(Acquire(ith), items) EXCEPT !.handoff = 1],
                  RRM_items(ith, items), ok)
    /\ UNCHANGED <<cpc, creq>>

\* case 2, a prefetch whose compare_and_swap(0, 1) succeeds: no prefetch is
\* waiting.  When a prefetch was started before, the call returns and awaits
\* the message "already in the making"; otherwise this is the first one.
\* MoveCase2 giving up a reference to the Iterator Handle that the call
\* never took.
MoveCase2_overrelease(id, action, arg) ==
    IF ith.started
    THEN /\ ith' = Release([ith EXCEPT !.handoff = 1])
         /\ ret' = [ret EXCEPT ![id] = RefTerm(ith.ref)]
         /\ UNCHANGED <<cpc, creq, items, queue>>
    ELSE /\ ith' = [Acquire(ith) EXCEPT !.handoff = 1]
         /\ cpc' = "mv_first"
         /\ creq' = [NoReq EXCEPT !.id = id, !.action = action, !.arg = arg,
                                   !.ret = RefTerm(ith.ref)]
         /\ UNCHANGED <<items, queue, ret>>

MoveCase2(id, action, arg) ==
    IF ith.started
    THEN /\ ith' = Release([Acquire(ith) EXCEPT !.handoff = 1])
         /\ ret' = [ret EXCEPT ![id] = RefTerm(ith.ref)]
         /\ UNCHANGED <<cpc, creq, items, queue>>
    ELSE /\ ith' = [Acquire(ith) EXCEPT !.handoff = 1]
         /\ cpc' = "mv_first"
         /\ creq' = [NoReq EXCEPT !.id = id, !.action = action, !.arg = arg,
                                   !.ret = RefTerm(ith.ref)]
         /\ UNCHANGED <<items, queue, ret>>

\* case 3, a prefetch that finds the flag at 1: a prefetch is waiting, and
\* its position is copied into the return term.
MoveCase3(id, action, arg, t) ==
    /\ t \in ReadItr
    /\ ith' = Acquire(ith)
    /\ cpc' = "mv_ready"
    /\ creq' = [NoReq EXCEPT !.id = id, !.action = action, !.arg = arg,
                              !.ret = t, !.quiet = ~Stepping]
    /\ UNCHANGED <<items, queue, ret>>

\* The call from its entry to its first access to the handoff flag, and on
\* to the next access that a worker's access may come before.
async_iterator_move(action, arg, ok, t) ==
    /\ cpc = "idle" /\ nreq < MaxReq
    /\ HasToken("ok_itr")
    /\ nreq' = nreq + 1
    /\ call' = "move"
    /\ IF ~Resolvable(ith)
       THEN /\ ret' = [ret EXCEPT ![nreq + 1] = BadArg]
            /\ UNCHANGED <<cpc, creq, ith, items, queue>>
       ELSE IF action # "prefetch" THEN MoveCase1(nreq + 1, action, arg, ok)
       ELSE IF ith.handoff = 0 THEN MoveCase2(nreq + 1, action, arg)
       ELSE MoveCase3(nreq + 1, action, arg, t)
    /\ UNCHANGED <<dbh, data, wk, sent>>

\* case 2, the first prefetch: m_PrefetchStarted=true, the previous move is
\* released, "first must return via message" (m_HandoffAtomic=1), and the
\* MoveTask is submitted.
MoveFirstPrefetch(ok) ==
    /\ cpc = "mv_first"
    /\ MoveSubmit(creq.id, creq.action, creq.arg, creq.ret,
                  [RRM_ith(ith, items) EXCEPT !.started = TRUE, !.handoff = 1],
                  RRM_items(ith, items), ok)
    /\ cpc' = "idle"
    /\ creq' = NoReq
    /\ UNCHANGED <<nreq, call, dbh, data, wk, sent>>

\* MoveReady without the store of 0 to m_HandoffAtomic.
MoveReady_noreset(ok) ==
    /\ cpc = "mv_ready"
    /\ MoveSubmit(creq.id, creq.action, creq.arg, creq.ret,
                  RRM_ith(ith, items), RRM_items(ith, items), ok)
    /\ cpc' = "idle"
    /\ creq' = NoReq
    /\ UNCHANGED <<nreq, call, dbh, data, wk, sent>>

\* case 3, after the copy: "reset for next race" (m_HandoffAtomic=0), the old
\* move is released, and the next prefetch submitted.
MoveReady(ok) ==
    /\ cpc = "mv_ready"
    /\ MoveSubmit(creq.id, creq.action, creq.arg, creq.ret,
                  [RRM_ith(ith, items) EXCEPT !.handoff = 0],
                  RRM_items(ith, items), ok)
    /\ cpc' = "idle"
    /\ creq' = NoReq
    /\ UNCHANGED <<nreq, call, dbh, data, wk, sent>>

\* ------------------------------------------------------- worker threads
\* WriteBatch applied to the engine: puts and deletes in list order.
RECURSIVE ApplyBatch(_, _)
ApplyBatch(batch, d) ==
    IF batch = <<>> THEN d
    ELSE ApplyBatch(Tail(batch),
                    [d EXCEPT ![Head(batch).k] =
                        IF Head(batch).op = "put" THEN Head(batch).v ELSE 0])

\* A worker pops the next item of the queue.  The idle workers all wait on
\* the same queue and are interchangeable: the one of least index takes it.
W_Take(w) ==
    /\ wk[w].pc = "idle"
    /\ \A v \in Threads : v < w => wk[v].pc # "idle"
    /\ queue # <<>>
    /\ queue' = Tail(queue)
    /\ wk' = [wk EXCEPT ![w] = [pc |-> "exec", id |-> Head(queue), res |-> NoTerm]]
    /\ items' = [items EXCEPT ![Head(queue)].st = "run"]
    /\ UNCHANGED <<nreq, call, cpc, creq, dbh, ith, data, sent, ret>>

\* A worker ends a Work Item that is no move: the reply goes to the
\* caller_ref the item was built with, the item is deleted and gives up its
\* reference to the Database Handle.
EndItem(w, res) ==
    /\ sent' = send_reply(sent, wk[w].id, items[wk[w].id].ref, res)
    /\ items' = [items EXCEPT ![wk[w].id] = Deleted(@, "done")]
    /\ wk' = [wk EXCEPT ![w] = IdleWorker]

\* OpenTask: the engine opens the database and the Database Handle is
\* created, or the engine reports a failure.
W_Open(w, eok) ==
    /\ wk[w].pc = "exec" /\ items[wk[w].id].kind = "open"
    /\ IF eok /\ dbh.st = "none"
       THEN dbh' = NewDb /\ EndItem(w, Term("ok_db", 0, 0, 0))
       ELSE dbh' = dbh /\ EndItem(w, Term("error_db_open", 0, 0, 0))
    /\ UNCHANGED <<nreq, call, cpc, creq, ith, data, queue, ret>>

\* WriteTask: the whole batch is written, or the engine reports a failure.
W_Write(w, eok) ==
    /\ wk[w].pc = "exec" /\ items[wk[w].id].kind = "write"
    /\ data' = IF eok THEN ApplyBatch(items[wk[w].id].batch, data) ELSE data
    /\ EndItem(w, IF eok THEN AtomOk ELSE Term("error_db_write", 0, 0, 0))
    /\ dbh' = Release(dbh)
    /\ UNCHANGED <<nreq, call, cpc, creq, ith, queue, ret>>

\* GetTask: the value, not_found, or the engine's failure.
W_Get(w, eok) ==
    /\ wk[w].pc = "exec" /\ items[wk[w].id].kind = "get"
    /\ LET k == items[wk[w].id].arg
       IN EndItem(w, IF ~eok THEN Term("error_db_get", 0, 0, 0)
                     ELSE IF data[k] = 0 THEN Term("not_found", 0, 0, 0)
                     ELSE Term("ok_val", 0, k, data[k]))
    /\ dbh' = Release(dbh)
    /\ UNCHANGED <<nreq, call, cpc, creq, ith, data, queue, ret>>

\* IterTask: a snapshot is taken and the Iterator Handle created; its
\* itr_ref is the creating call's caller_ref.
W_Iter(w) ==
    /\ wk[w].pc = "exec" /\ items[wk[w].id].kind = "iter"
    /\ ith' = NewItr(items[wk[w].id].ref, items[wk[w].id].arg = 1, data)
    /\ EndItem(w, Term("ok_itr", 0, 0, 0))
    /\ dbh' = Release(dbh)
    /\ UNCHANGED <<nreq, call, cpc, creq, data, queue, ret>>

\* MoveTask, the step: the iterator moves as the action says; stepping it
\* while another thread steps it leaves it anywhere.
W_Step(w, p) ==
    /\ wk[w].pc = "exec" /\ items[wk[w].id].kind = "move"
    /\ LET it == items[wk[w].id]
           racing == \E v \in Threads \ {w} :
                         wk[v].pc = "exec" /\ items[wk[v].id].kind = "move"
       IN IF racing THEN p \in {0} \cup Present(ith.snap)
          ELSE p = MovePos(it.action, it.arg, ith.snap, ith.pos)
    /\ ith' = [ith EXCEPT !.pos = p]
    /\ wk' = [wk EXCEPT ![w].pc = "cas"]
    /\ UNCHANGED <<nreq, call, cpc, creq, dbh, data, items, queue, sent, ret>>

\* MoveTask, the handoff: compare-and-set 0 -> 1.  The worker that wins
\* leaves the position buffered and sends nothing; the one that loses
\* must reply by message.
W_Handoff(w) ==
    /\ wk[w].pc = "cas"
    /\ IF ith.handoff = 0
       THEN /\ ith' = [ith EXCEPT !.handoff = 1]
            /\ wk' = [wk EXCEPT ![w].pc = "fin"]
       ELSE /\ ith' = ith
            /\ wk' = [wk EXCEPT ![w].pc = "reset"]
    /\ UNCHANGED <<nreq, call, cpc, creq, dbh, data, items, queue, sent, ret>>

\* MoveTask, the reply: the flag is reset for the next race and the reply
\* built from the iterator's position.
W_Reset(w, t) ==
    /\ wk[w].pc = "reset"
    /\ t \in ReadItr
    /\ ith' = [ith EXCEPT !.handoff = 0]
    /\ wk' = [wk EXCEPT ![w].pc = "fin", ![w].res = t]
    /\ UNCHANGED <<nreq, call, cpc, creq, dbh, data, items, queue, sent, ret>>

\* A Move Work Item that replied to a prefetch with a position is recycled:
\* the same item runs again as the next prefetch.  On an iterator that is
\* not valid the move reports the invalid-iterator marker and is not retried.
Recycled(it, res) ==
    it.kind = "move" /\ it.action = "prefetch" /\ res.tag \in {"ok_key", "ok_kv"}

\* W_Finish deleting a Move Work Item whose reply was sent while leaving the
\* pending_move slot, and with it the slot's reference, in place.
W_Finish_noclear(w) ==
    /\ wk[w].pc = "fin"
    /\ LET id == wk[w].id
           it == items[id]
           res == wk[w].res
           keep == it.held /\ res = NoTerm
       IN /\ sent' = IF res # NoTerm THEN send_reply(sent, id, it.ref, res) ELSE sent
          /\ IF Recycled(it, res)
             THEN /\ wk' = [wk EXCEPT ![w].pc = "exec", ![w].res = NoTerm]
                  /\ UNCHANGED <<items, ith, dbh>>
             ELSE /\ wk' = [wk EXCEPT ![w] = IdleWorker]
                  /\ items' = [items EXCEPT ![id] = IF keep THEN [@ EXCEPT !.st = "idle"]
                                                     ELSE Deleted(@, "done")]
                  /\ ith' = IF keep THEN ith ELSE Release(ith)
                  /\ dbh' = dbh
    /\ UNCHANGED <<nreq, call, cpc, creq, data, queue, ret>>

\* The worker sends the item's reply, if it has one, to the caller_ref the
\* item was built with, and recycles the item or gives it up.  A Move Work
\* Item retired with its reply sent is cleared from the pending_move slot;
\* one that buffered its result stays there until the caller releases it.
W_Finish(w) ==
    /\ wk[w].pc = "fin"
    /\ LET id == wk[w].id
           it == items[id]
           res == wk[w].res
           clear == res # NoTerm /\ ith.reuse = id
           keep == it.held /\ ~clear
       IN /\ sent' = IF res # NoTerm THEN send_reply(sent, id, it.ref, res) ELSE sent
          /\ IF Recycled(it, res)
             THEN /\ wk' = [wk EXCEPT ![w].pc = "exec", ![w].res = NoTerm]
                  /\ UNCHANGED <<items, ith, dbh>>
             ELSE /\ wk' = [wk EXCEPT ![w] = IdleWorker]
                  /\ items' = [items EXCEPT ![id] = IF keep THEN [@ EXCEPT !.st = "idle"]
                                                     ELSE Deleted(@, "done")]
                  /\ ith' = IF keep THEN ith
                            ELSE Release([ith EXCEPT !.reuse = IF clear THEN NULL ELSE @])
                  /\ dbh' = dbh
    /\ UNCHANGED <<nreq, call, cpc, creq, data, queue, ret>>

\* ----------------------------------------------------------------- spec
Caller ==
    \/ \E ok \in BOOLEAN : async_open(ok)
    \/ \E b \in 1..(RoundTrip - 1), ok \in BOOLEAN : async_write(b, ok)
    \/ \E k \in Keys, ok \in BOOLEAN : async_get(k, ok)
    \/ \E ko \in BOOLEAN, ok \in BOOLEAN : async_iterator(ko, ok)
    \/ \E a \in MoveMenu, ok \in BOOLEAN, t \in ReadItr :
           async_iterator_move(a, 0, ok, t)
    \/ \E k \in SeekMenu, ok \in BOOLEAN, t \in ReadItr :
           async_iterator_move("seek", k, ok, t)
    \/ \E ok \in BOOLEAN : MoveFirstPrefetch(ok)
    \/ \E ok \in BOOLEAN : MoveReady(ok)
    \/ eleveldb_close
    \/ eleveldb_iterator_close
    \/ InitiateCloseRequest
    \/ CloseRelease

Worker(w) ==
    \/ W_Take(w)
    \/ \E eok \in BOOLEAN : W_Open(w, eok)
    \/ \E eok \in BOOLEAN : W_Write(w, eok)
    \/ \E eok \in BOOLEAN : W_Get(w, eok)
    \/ W_Iter(w)
    \/ \E p \in 0..NKeys : W_Step(w, p)
    \/ W_Handoff(w)
    \/ \E t \in ReadItr : W_Reset(w, t)
    \/ W_Finish(w)

Next == Caller \/ \E w \in Threads : Worker(w)

Spec == Init /\ [][Next]_vars

\* ------------------------------------------------------- round trip
\* The caller of the round trip: it opens the database, writes the round
\* trip's batch, creates an iterator and moves it with First and Next.
NextRoundTrip ==
    \/ \E ok \in BOOLEAN : async_open(ok)
    \/ \E ok \in BOOLEAN : async_write(RoundTrip, ok)
    \/ \E ko \in BOOLEAN, ok \in BOOLEAN : async_iterator(ko, ok)
    \/ \E a \in {"first", "next"}, ok \in BOOLEAN, t \in ReadItr :
           async_iterator_move(a, 0, ok, t)
    \/ \E w \in Threads : W_Take(w)
    \/ \E w \in Threads, eok \in BOOLEAN : W_Open(w, eok)
    \/ \E w \in Threads, eok \in BOOLEAN : W_Write(w, eok)
    \/ \E w \in Threads : W_Iter(w)
    \/ \E w \in Threads, p \in 0..NKeys : W_Step(w, p)
    \/ \E w \in Threads : W_Handoff(w)
    \/ \E w \in Threads, t \in ReadItr : W_Reset(w, t)
    \/ \E w \in Threads : W_Finish(w)

SpecRoundTrip == Init /\ [][NextRoundTrip]_vars

\* ------------------------------------------------- batch validation
\* The batch lists with an entry that is no clear, put or delete.
BadBatches == {b \in 1..Len(BatchMenu) :
                 \E n \in 1..Len(BatchMenu[b]) : BatchMenu[b][n].op \in {"bad", "atom"}}

\* The emulator runs: no call has brought it down.
Running == cpc # "crashed"

\* The caller of the batch validation: it opens the database, writes a list
\* with such an entry and reads the keys back.
NextWrite ==
    \/ \E ok \in BOOLEAN : async_open(ok)
    \/ \E b \in BadBatches, ok \in BOOLEAN : async_write(b, ok)
    \/ \E k \in Keys, ok \in BOOLEAN : async_get(k, ok)
    \/ \E w \in Threads : Running /\ W_Take(w)
    \/ \E w \in Threads, eok \in BOOLEAN : Running /\ W_Open(w, eok)
    \/ \E w \in Threads, eok \in BOOLEAN : Running /\ W_Write(w, eok)
    \/ \E w \in Threads, eok \in BOOLEAN : Running /\ W_Get(w, eok)

SpecWrite == Init /\ [][NextWrite]_vars

\* ------------------------------------------------- load and unload
\* eleveldb::N_THREADS_MAX, the hard maximum of the pool's size.
N_THREADS_MAX == NThreads

\* A cell of load_info: {Atom, Value}, Value an integer or not.
Cell(atom, int, n) == [atom |-> atom, int |-> int, n |-> n]

\* The load_info terms on_load is given: a term that is no list, and lists
\* of up to two cells.
CellMenu ==
    {Cell("write_threads", TRUE, n) : n \in -1..(N_THREADS_MAX + 1)}
        \cup {Cell("write_threads", FALSE, 0), Cell("other", TRUE, 1)}

LoadInfoMenu ==
    {[list |-> FALSE, cells |-> <<>>], [list |-> TRUE, cells |-> <<>>]}
        \cup {[list |-> TRUE, cells |-> <<c>>] : c \in CellMenu}
        \cup {[list |-> TRUE, cells |-> <<c, d>>] : c, d \in CellMenu}

\* on_load's loop over load_info: every {write_threads, N} is checked and
\* stored; other cells are skipped.  n is local.n_threads so far.
RECURSIVE ParseLoadInfo(_, _)
ParseLoadInfo(cells, n) ==
    IF cells = <<>> THEN [res |-> "ok", n |-> n]
    ELSE LET c == Head(cells)
         IN IF c.atom # "write_threads" THEN ParseLoadInfo(Tail(cells), n)
            ELSE IF ~c.int THEN [res |-> "invalid_argument", n |-> n]
            ELSE IF 0 >= c.n \/ N_THREADS_MAX < c.n THEN [res |-> "range_error", n |-> c.n]
            ELSE ParseLoadInfo(Tail(cells), c.n)

\* on_load: local.n_threads starts at 0; an exception refuses the load with
\* *priv_data = 0; otherwise the private data is made with a pool of
\* local.n_threads worker threads.
on_load(li) ==
    /\ cpc = "load"
    /\ LET r == IF li.list THEN ParseLoadInfo(li.cells, 0)
                ELSE [res |-> "invalid_argument", n |-> 0]
       IN IF r.res = "ok"
          THEN cpc' = "idle" /\ wk' = [w \in 1..r.n |-> IdleWorker]
          ELSE cpc' = "refused" /\ wk' = wk
    /\ UNCHANGED <<nreq, call, creq, dbh, ith, data, items, queue, sent, ret>>

\* The items of a queue, cancelled: each is deleted without having run.
RECURSIVE Cancel(_, _)
Cancel(q, its) ==
    IF q = <<>> THEN its
    ELSE Cancel(Tail(q), [its EXCEPT ![Head(q)] = Deleted(@, "gone")])

\* The Database Handle after n Work Items gave up their references to it.
RECURSIVE ReleaseN(_, _)
ReleaseN(h, n) == IF n = 0 THEN h ELSE ReleaseN(Release(h), n - 1)

\* on_unload deletes the private data.  The pool's destructor begins: no
\* item is taken any more, and the queued items are cancelled.
on_unload ==
    /\ cpc = "idle"
    /\ cpc' = "unloading"
    /\ queue' = <<>>
    /\ items' = Cancel(queue, items)
    /\ dbh' = ReleaseN(dbh, Cardinality({n \in 1..Len(queue) :
                                            items[queue[n]].kind \in DbKinds}))
    /\ UNCHANGED <<nreq, call, creq, ith, data, wk, sent, ret>>

\* A worker that finds the pool shutting down leaves its loop and is joined.
W_Exit(w) ==
    /\ cpc = "unloading"
    /\ wk[w].pc = "idle"
    /\ wk' = [wk EXCEPT ![w].pc = "joined"]
    /\ UNCHANGED <<nreq, call, cpc, creq, dbh, ith, data, items, queue, sent, ret>>

\* PoolRelease without the join: the pool state goes while workers run.
PoolRelease_nojoin ==
    /\ cpc = "unloading"
    /\ cpc' = "unloaded"
    /\ wk' = <<>>
    /\ UNCHANGED <<nreq, call, creq, dbh, ith, data, items, queue, sent, ret>>

\* With every worker joined the destructor releases the pool state, and
\* the private data is gone.
PoolRelease ==
    /\ cpc = "unloading"
    /\ \A w \in DOMAIN wk : wk[w].pc = "joined"
    /\ cpc' = "unloaded"
    /\ wk' = <<>>
    /\ UNCHANGED <<nreq, call, creq, dbh, ith, data, items, queue, sent, ret>>

\* Before on_load: no private data, no pool, no handle.
InitLoad ==
    /\ nreq = 0
    /\ call = "none"
    /\ cpc = "load"
    /\ creq = NoReq
    /\ dbh = NoHandle
    /\ ith = NoItr
    /\ data = [k \in Keys |-> 0]
    /\ items = [i \in Ids |-> NoItem]
    /\ queue = <<>>
    /\ wk = <<>>
    /\ sent = [i \in Ids |-> <<>>]
    /\ ret = [i \in Ids |-> NoTerm]

\* The module is loaded, serves opens, writes and gets, and is unloaded.
NextLoad ==
    \/ \E li \in LoadInfoMenu : on_load(li)
    \/ \E ok \in BOOLEAN : async_open(ok)
    \/ \E b \in 1..RoundTrip, ok \in BOOLEAN : async_write(b, ok)
    \/ \E k \in Keys, ok \in BOOLEAN : async_get(k, ok)
    \/ \E w \in DOMAIN wk : W_Take(w)
    \/ \E w \in DOMAIN wk, eok \in BOOLEAN : W_Open(w, eok)
    \/ \E w \in DOMAIN wk, eok \in BOOLEAN : W_Write(w, eok)
    \/ \E w \in DOMAIN wk, eok \in BOOLEAN : W_Get(w, eok)
    \/ \E w \in DOMAIN wk : W_Exit(w)
    \/ on_unload
    \/ PoolRelease

SpecLoad == InitLoad /\ [][NextLoad]_vars

\* One step of worker thread w of the pool, if the pool has such a thread.
WorkerStep(w) ==
    /\ w \in DOMAIN wk
    /\ \/ W_Take(w)
       \/ \E eok \in BOOLEAN : W_Open(w, eok)
       \/ \E eok \in BOOLEAN : W_Write(w, eok)
       \/ \E eok \in BOOLEAN : W_Get(w, eok)

\* Fair scheduling of the workers: a worker thread that can take an item or
\* go on with the one it has is not held back forever.  The caller is under
\* no such obligation: it may never call again, and never unload.
SpecLoadFair == SpecLoad /\ \A w \in Threads : WF_vars(WorkerStep(w))

\* ----------------------------------------- a handle without a connection
\* A Database Handle that owns no engine connection: a valid object, one
\* reference, the caller's own.
NullDb == [NewDb EXCEPT !.st = "null"]

\* The caller holds the token of a Database Handle without a connection:
\* call 1 was the open that made the handle.
InitNullDb ==
    /\ nreq = 1
    /\ call = "open"
    /\ cpc = "idle"
    /\ creq = NoReq
    /\ dbh = NullDb
    /\ ith = NoItr
    /\ data = [k \in Keys |-> 0]
    /\ items = [i \in Ids |-> IF i = 1 THEN Deleted(NewItem("open", 1, "none", 0, <<>>), "done")
                                ELSE NoItem]
    /\ queue = <<>>
    /\ wk = [w \in Threads |-> IdleWorker]
    /\ sent = [i \in Ids |-> IF i = 1 THEN <<[ref |-> 1, body |-> Term("ok_db", 0, 0, 0)]>>
                               ELSE <<>>]
    /\ ret = [i \in Ids |-> IF i = 1 THEN AtomOk ELSE NoTerm]

\* The calls that name the Database Handle.
NextNullDb ==
    \/ \E b \in 1..RoundTrip, ok \in BOOLEAN : async_write(b, ok)
    \/ \E k \in Keys, ok \in BOOLEAN : async_get(k, ok)
    \/ \E ko \in BOOLEAN, ok \in BOOLEAN : async_iterator(ko, ok)
    \/ \E nameok \in BOOLEAN, found \in BOOLEAN : eleveldb_status(nameok, found)
    \/ eleveldb_is_empty
    \/ eleveldb_close
    \/ InitiateCloseRequest
    \/ CloseRelease

SpecNullDb == InitNullDb /\ [][NextNullDb]_vars

\* --------------------------------------------------- resource lifecycle
\* The Work Items that hold a reference to the Database Handle, and those
\* that hold one to the Iterator Handle: from construction to deletion.
DbItems == {i \in Ids : items[i].kind \in DbKinds /\ items[i].st \in {"new", "queued", "run"}}

ItrItems == {i \in Ids : items[i].kind = "move" /\ items[i].st \in {"new", "queued", "run", "idle"}}

\* The caller is inside a call that holds a reference to the handle.
CallerInDb == cpc \in {"close_mark", "close_release"} /\ creq.action = "db"

CallerInItr ==
    \/ cpc \in {"close_mark", "close_release"} /\ creq.action = "itr"
    \/ cpc \in {"mv_first", "mv_ready"}

DestroyedOnce(h) ==
    /\ h.ndestroy <= 1
    /\ h.st = "dead" => h.closing /\ h.refcount = 0

\* C1: a Database Handle or Iterator Handle is destroyed at most once, and
\* a destroyed handle has closing set and a reference count of 0: nothing
\* releases a reference after the destruction, nothing destroys it before.
C1_DestroyedOnce == DestroyedOnce(dbh) /\ DestroyedOnce(ith)

\* Both handles have been destroyed, each once.
C1_Witness ==
    /\ dbh.st = "dead" /\ dbh.ndestroy = 1
    /\ ith.st = "dead" /\ ith.ndestroy = 1

\* C2: while a Work Item that is queued or running holds a reference to a
\* handle, the handle's engine resource is open, also when close was
\* initiated on the handle in the meantime.
C2_OpenWhileReferenced ==
    /\ DbItems # {} => dbh.st = "live"
    /\ ItrItems # {} => ith.st = "live"

\* Close has been initiated, and has returned, on a Database Handle that a
\* worker is executing a Write or Get against.
C2_Witness ==
    /\ dbh.closing /\ ~CallerInDb
    /\ \E w \in Threads : wk[w].pc = "exec" /\ wk[w].id \in DbItems

\* C3: a handle is destroyed exactly when its count is 0 with closing set,
\* and it has been destroyed once close has returned and no Work Item and no
\* call holds a reference to it any more.
C3_NoLeak ==
    /\ dbh.st = "dead" <=> dbh.closing /\ dbh.refcount = 0
    /\ ith.st = "dead" <=> ith.closing /\ ith.refcount = 0
    /\ dbh.closing /\ ~CallerInDb /\ DbItems = {} => dbh.st = "dead"
    /\ ith.closing /\ ~CallerInItr /\ ItrItems = {} => ith.st = "dead"

\* The Iterator Handle was destroyed after a Move Work Item ran on it, and
\* the Database Handle was destroyed as well.
C3_Witness ==
    /\ ith.st = "dead"
    /\ \E i \in Ids : items[i].kind = "move" /\ items[i].st = "done"
    /\ dbh.st = "dead"

\* ---------------------------------------------------------- single flight
\* The Move Work Items in flight: queued, or being executed by a worker.
MovesInFlight == {i \in Ids : items[i].kind = "move" /\ items[i].st \in {"queued", "run"}}

\* The workers stepping the native iterator.
Steppers == {w \in Threads : wk[w].pc = "exec" /\ items[wk[w].id].kind = "move"}

\* C4: at most one Move Work Item of the Iterator Handle is in flight
\* (queued or executing) at any time, whatever moves the caller issues
\* back-to-back.
C4_SingleFlight == Cardinality(MovesInFlight) <= 1

\* C5: no two worker threads step the same native iterator at the same
\* time, and the caller reads the buffered position (the prefetch-ready
\* branch) only while no worker is stepping the iterator.
C5_NoConcurrentAccess ==
    /\ Cardinality(Steppers) <= 1
    /\ cpc = "mv_ready" => creq.quiet

\* ---------------------------------------------------------------- handoff
\* The move calls that returned the iterator's reference: the caller was told
\* to await a message.
Awaits == Cardinality({i \in Ids : ret[i].tag = "ref"})

\* The messages sent for Move Work Items so far.
RECURSIVE MoveMsgs(_)
MoveMsgs(n) ==
    IF n = 0 THEN 0
    ELSE MoveMsgs(n - 1) + (IF items[n].kind = "move" THEN Len(sent[n]) ELSE 0)

\* The caller awaits a message that was not sent yet.
Unanswered == Awaits - MoveMsgs(MaxReq)

\* A worker has completed a move and left its result buffered: it won the
\* compare-and-set and sent nothing.
BufferedResult ==
    \/ \E i \in Ids : items[i].kind = "move" /\ items[i].st = "idle"
    \/ \E w \in Threads : wk[w].pc = "fin" /\ wk[w].res = NoTerm

\* The background prefetches in flight.
PrefetchInFlight == {i \in MovesInFlight : items[i].action = "prefetch"}

\* C6: of a Prefetch request and the worker completing the background
\* prefetch, exactly one takes the "value already ready" branch: the caller
\* takes it, with a prefetch in flight, only when a worker has buffered a
\* result, and a worker buffers a prefetch's result without a message only
\* when no call awaits a message.
C6_HandoffExclusive ==
    [][/\ cpc = "idle" /\ cpc' = "mv_ready" /\ PrefetchInFlight # {} => BufferedResult
       /\ \A w \in Threads :
              wk[w].pc = "cas" /\ wk'[w].pc = "fin" /\ items[wk[w].id].action = "prefetch"
                  => Unanswered = 0]_vars

\* Nothing is running and nothing is queued: without a further call no
\* message will be sent.
Quiescent ==
    cpc = "idle" /\ queue = <<>> /\ \A w \in Threads : wk[w].pc = "idle"

\* Every move the caller has asked for so far was a Prefetch.
OnlyPrefetch == \A i \in Ids : items[i].kind = "move" => items[i].action = "prefetch"

\* C7: every Prefetch request is answered exactly once: by its return value
\* and no message, or by exactly one message.  On an open iterator that was
\* only ever asked to prefetch, with no submission refused, no more messages
\* are sent than calls were told to await one, and once nothing is running
\* or queued every call that was told to await a message has got it.
C7_PrefetchAnsweredOnce ==
    OnlyPrefetch /\ Refused = 0 /\ ~ith.closing =>
        /\ MoveMsgs(MaxReq) <= Awaits
        /\ Quiescent => Unanswered = 0

\* ---------------------------------------------------------- prefetch ready
\* The step in which a Prefetch call reads the buffered position, and the
\* step in which it resets the flag, releases the old move and submits.
ReadStep == cpc = "idle" /\ cpc' = "mv_ready"

ReadyStep == cpc = "mv_ready" /\ cpc' = "idle"

\* What the prefetch-ready branch leaves behind when all went well.
ReadyEffect ==
    /\ ret'[creq.id] = creq.ret
    /\ ith'.handoff = 0
    /\ ith.reuse # NULL => items'[ith.reuse].st # "idle" /\ ~items'[ith.reuse].held
    /\ ith'.reuse = creq.id
    /\ items'[creq.id].st = "queued" /\ items'[creq.id].action = "prefetch"

\* The pool takes the submission of this step.
Accepted == Refused' = Refused

Executed(i) == items[i].st = "done"

C10_RefusedGetsOneErrorReply ==
    \A i \in Ids :
        items[i].st = "refused"
            => Len(sent[i]) = 1 /\ sent[i][1].body.tag = "error_ref"

\* ------------------------------------------------------ closed handles
\* The step in which the caller enters a NIF.
CallStep == cpc = "idle" /\ nreq' = nreq + 1

\* The call of this step returns badarg and leaves everything else alone.
Rejected ==
    /\ ret'[nreq'] = BadArg
    /\ cpc' = "idle"
    /\ UNCHANGED <<dbh, ith, items, queue, sent, data, wk>>

\* C11: once close was initiated on a handle, a Write, Get or
\* CreateIterator naming the Database Handle, and a MoveIterator naming the
\* Iterator Handle, is rejected synchronously: it returns badarg, acquires
\* no reference, builds and submits no Work Item and sends nothing.
C11_ClosedHandleRejected ==
    [][CallStep =>
          /\ call' \in {"write", "get", "iterator"} /\ dbh.closing => Rejected
          /\ call' = "move" /\ ith.closing => Rejected]_vars

\* A Get was rejected on a closing Database Handle that a Work Item
\* submitted before the close still holds.
C11_Witness ==
    /\ call = "get" /\ ret[nreq] = BadArg /\ cpc = "idle"
    /\ dbh.closing /\ dbh.st = "live" /\ DbItems # {}

\* The handle the close in progress is closing.
ClosingNow == IF creq.action = "db" THEN dbh.closing ELSE ith.closing

\* C12: close is idempotent: a close of a handle that is already closing
\* returns badarg and changes neither closing nor the reference count, and
\* the steps that set closing and give up the caller's reference are only
\* ever entered for a handle that is not closing yet.
C12_CloseIdempotent ==
    /\ [](cpc = "close_mark" => ~ClosingNow)
    /\ [][CallStep =>
             /\ call' = "close" /\ dbh.closing => Rejected
             /\ call' = "iterator_close" /\ ith.closing => Rejected]_vars

\* A second close was rejected on a Database Handle that is closing and
\* that a Work Item still holds.
C12_Witness ==
    /\ call = "close" /\ ret[nreq] = BadArg /\ cpc = "idle"
    /\ dbh.closing /\ dbh.st = "live" /\ DbItems # {}

\* ------------------------------------------------------ reference counts
\* 1 while the caller's own reference to the handle, the one its creation
\* gave, has not been given up by a close.
DbOwner == IF ~dbh.closing \/ (cpc = "close_release" /\ creq.action = "db") THEN 1 ELSE 0

ItrOwner == IF ~ith.closing \/ (cpc = "close_release" /\ creq.action = "itr") THEN 1 ELSE 0

\* 1 while a move call holds its own reference (itr_ptr).
ItrCall == IF cpc \in {"mv_first", "mv_ready"} THEN 1 ELSE 0

\* C13: the reference count of a handle is never negative: it is the number
\* of references in use, the caller's own one, one per Work Item built for
\* the handle and not yet deleted, and one of a move call in progress.
C13_RefcountNonNegative ==
    /\ dbh.refcount >= 0 /\ ith.refcount >= 0
    /\ dbh.st # "none" => dbh.refcount = DbOwner + Cardinality(DbItems)
    /\ ith.st # "none" => ith.refcount = ItrOwner + ItrCall + Cardinality(ItrItems)

\* Two Move Work Items have come and gone, and the Iterator Handle's count
\* is back at the caller's own reference.
C13_Witness ==
    /\ ith.st = "live" /\ ith.refcount = 1
    /\ Cardinality({i \in Ids : items[i].kind = "move" /\ items[i].st = "done"}) >= 2

\* ------------------------------------------------------------ end of data
\* Move Work Item i is the only one of the Iterator Handle that is not
\* finished, and the latest one: no other move runs beside it.
Alone(i) ==
    \A j \in Ids \ {i} :
        items[j].kind = "move" => j < i /\ items[j].st \notin {"new", "queued", "run"}

\* The calls that can be moves: an open and a CreateIterator come first.
MoveIds == {i \in Ids : i > 2}

\* Move Work Item i has run to its end.
Ran(i) == items[i].st \in {"done", "idle"}

\* The one message {itr_ref, body} of a Move Work Item.
MoveMsg(body) == <<[ref |-> ith.ref, body |-> body]>>

\* A Next is queued, alone, on an iterator that is not valid, with the
\* reply mode its call forced (m_HandoffAtomic=1) in force.
NextAtEnd(i) ==
    /\ items[i].kind = "move" /\ items[i].action = "next" /\ items[i].st = "queued"
    /\ ith.pos = NULL /\ ith.handoff = 1 /\ Alone(i)

\* A First is queued, alone and with that reply mode in force, on a snapshot
\* that is not empty, after a Next reported the invalid-iterator marker.
FirstAfterEnd(i) ==
    /\ items[i].kind = "move" /\ items[i].action = "first" /\ items[i].st = "queued"
    /\ Present(ith.snap) # {} /\ ith.handoff = 1 /\ Alone(i)
    /\ \E j \in 1..(i - 1) :
           /\ items[j].kind = "move" /\ items[j].action = "next"
           /\ sent[j] = MoveMsg(InvalidIterator)

\* C14: a Next on an iterator that is past the last entry reports the
\* invalid-iterator marker in its one message and leaves the iterator where
\* it was; a move on the handle is not rejected as long as no close was
\* initiated on it, and a First issued afterwards reports the first entry of
\* a snapshot that is not empty.  Both moves run with no other move of the
\* iterator beside them.
C14_NextPastEndThenFirst ==
    /\ \A i \in MoveIds :
           [](NextAtEnd(i) =>
                 [](Ran(i) /\ Alone(i) =>
                       /\ ret[i] = RefTerm(ith.ref)
                       /\ sent[i] = MoveMsg(InvalidIterator)
                       /\ ith.pos = NULL))
    /\ \A i \in MoveIds :
           [](FirstAfterEnd(i) =>
                 [](Ran(i) /\ Alone(i) =>
                       /\ ret[i] = RefTerm(ith.ref)
                       /\ sent[i] = MoveMsg(PosTerm(ith.snap, SeekToFirst(ith.snap),
                                                     ith.keysOnly))))
    /\ [][CallStep /\ call' = "move" /\ Resolvable(ith) => ret'[nreq'] # BadArg]_vars

\* A Next on a fresh iterator over one entry reported the marker, and the
\* First issued after it reported that entry.
C14_Witness ==
    \E i \in Ids : \E j \in 1..(i - 1) :
        /\ items[j].kind = "move" /\ items[j].action = "next" /\ items[j].st = "done"
        /\ sent[j] = MoveMsg(InvalidIterator)
        /\ items[i].kind = "move" /\ items[i].action = "first" /\ items[i].st = "done"
        /\ Alone(i) /\ Len(sent[i]) = 1 /\ sent[i][1].body.tag \in {"ok_key", "ok_kv"}

\* ----------------------------------------------------- null connection
\* The Database Handle resolves and owns no engine connection.
NullConn == Resolvable(dbh) /\ dbh.st = "null"

\* The one message {caller_ref, {error, einval}} of call id.
EinvalMsg(id) == <<[ref |-> id, body |-> error_einval]>>

\* C15: through a Database Handle without an engine connection, Write, Get
\* and CreateIterator reply {error, einval} by message, is_empty returns it,
\* and status returns it when its property name is a binary (badarg
\* otherwise); none builds or queues a Work Item, and none gets a result
\* from, or changes, the storage engine.
C15_NullConnectionEinval ==
    [][CallStep /\ NullConn /\ call' \in {"write", "get", "iterator", "status", "is_empty"} =>
          /\ call' \in {"write", "get", "iterator"} =>
                 ret'[nreq'] = AtomOk /\ sent'[nreq'] = EinvalMsg(nreq')
          /\ call' = "is_empty" => ret'[nreq'] = error_einval /\ sent' = sent
          /\ call' = "status" =>
                 /\ ret'[nreq'] \in {error_einval, BadArg} /\ sent' = sent
                 /\ \A found \in BOOLEAN :
                        eleveldb_status(TRUE, found) => ret'[nreq'] = error_einval
          /\ cpc' = "idle"
          /\ UNCHANGED <<dbh, ith, items, queue, data, wk>>]_vars

\* All five operations were tried on the handle without a connection, and
\* each got einval.
C15_Witness ==
    /\ NullConn /\ nreq = MaxReq /\ call = "status"
    /\ ret[MaxReq] = error_einval
    /\ \E i \in Ids : ret[i] = error_einval /\ i # MaxReq
    /\ Cardinality({i \in Ids : sent[i] = EinvalMsg(i)}) >= 2
    /\ \A i \in Ids \ {1} : items[i] = NoItem

\* ------------------------------------------------------ protocol errors
\* The call is a move whose argument is neither a known action atom nor a
\* binary: it is taken for a seek, and for a target that is no binary.
BadMove == \E ok \in BOOLEAN, t \in ReadItr : async_iterator_move("seek", 0, ok, t)

\* Item i is in the queue or in a worker's hands.
Consumed(i) ==
    \/ \E n \in 1..Len(queue) : queue[n] = i
    \/ \E w \in Threads : wk[w].pc # "idle" /\ wk[w].id = i

\* C16: a move whose argument is neither a known action atom nor a binary
\* returns {einval, itr_ref} to the caller (badarg when the handle does not
\* resolve), within the call; the queue and the workers are as before, no
\* message is sent then, and none is ever sent for the request afterwards.
C16_BadMoveSynchronous ==
    /\ [][BadMove =>
             /\ ret'[nreq'] = IF Resolvable(ith) THEN EinvalRef(ith.ref) ELSE BadArg
             /\ cpc' = "idle"
             /\ items'[nreq'].st \in {"none", "gone"}
             /\ UNCHANGED <<queue, wk, sent>>]_vars
    /\ [](\A i \in Ids : items[i].st = "gone" => sent[i] = <<>> /\ ~Consumed(i))

\* A bad seek target was turned down after an earlier move had sent its
\* message, and nothing is queued or running.
C16_Witness ==
    \E i \in Ids :
        /\ items[i].st = "gone" /\ ret[i] = EinvalRef(ith.ref)
        /\ \E j \in 1..(i - 1) : items[j].kind = "move" /\ items[j].st = "done"
                                   /\ Len(sent[j]) = 1
        /\ Quiescent /\ nreq = MaxReq

\* -------------------------------------------------------- configuration
\* C17: after every successful initialization the pool has at least one
\* and at most N_THREADS_MAX worker threads, and a refused initialization
\* leaves no pool state.
C17_PoolSizeInRange ==
    /\ cpc = "idle" => Cardinality(DOMAIN wk) \in 1..N_THREADS_MAX
    /\ cpc = "refused" => wk = <<>> /\ queue = <<>>

RoundTripData == [k \in Keys |-> IF k = 2 THEN 2 ELSE 0]

\* The Write of the round trip's batch has replied ok.
WriteReplied ==
    \E i \in Ids : items[i].kind = "write" /\ sent[i] = <<[ref |-> i, body |-> AtomOk]>>

\* Move Work Item i is queued, alone and with the reply by message in
\* force, on an iterator over the round trip's data.
RoundTripMove(i, action) ==
    /\ items[i].kind = "move" /\ items[i].action = action /\ items[i].st = "queued"
    /\ ith.snap = RoundTripData /\ ith.handoff = 1 /\ Alone(i)

\* C19: once the Write of [Put(k1,v1), Put(k2,v2), Delete(k1)] to the empty
\* database has replied ok the database holds k2 -> v2 alone (the entries
\* took effect in list order); an iterator created after that reply has
\* that snapshot; on it a First reports k2 when keys-only and (k2, v2)
\* otherwise, and a Next from there reports the invalid-iterator marker.
\* The moves run with no other move of the iterator beside them.
C19_RoundTrip ==
    /\ [](WriteReplied => data = RoundTripData)
    /\ [][WriteReplied /\ ith.st = "none" /\ ith'.st = "live"
             => ith'.snap = RoundTripData]_vars
    /\ \A i \in MoveIds :
           [](RoundTripMove(i, "first") =>
                 [](Ran(i) /\ Alone(i) =>
                       sent[i] = MoveMsg(IF ith.keysOnly THEN Term("ok_key", 0, 2, 0)
                                         ELSE Term("ok_kv", 0, 2, 2))))
    /\ \A i \in MoveIds :
           [](RoundTripMove(i, "next") /\ ith.pos = 2 =>
                 [](Ran(i) /\ Alone(i) => sent[i] = MoveMsg(InvalidIterator)))

\* The whole round trip, with values: ok for the write, the iterator
\* created after it, (k2, v2) for First and the marker for Next.
C19_Witness ==
    /\ WriteReplied /\ ith.snap = RoundTripData /\ ~ith.keysOnly
    /\ \E i \in MoveIds : \E j \in MoveIds :
           /\ i < j
           /\ items[i].action = "first" /\ sent[i] = MoveMsg(Term("ok_kv", 0, 2, 2))
           /\ items[j].action = "next" /\ sent[j] = MoveMsg(InvalidIterator)

\* ---------------------------------------------------------- explicit moves
\* C20: a move that is no prefetch (First, Last, Next, Prev, Seek) has its
\* result delivered by message: once its Work Item has run, exactly one
\* message was sent for it, whatever other moves of the iterator were
\* queued or running when it was issued.
C20_ExplicitMoveByMessage ==
    \A i \in Ids :
        items[i].kind = "move" /\ items[i].action # "prefetch" /\ Ran(i)
            => Len(sent[i]) = 1

\* ------------------------------------------------------- awaited prefetch
\* A Prefetch call wins the compare-and-set (0 to 1) on a handle whose
\* m_PrefetchStarted is set: it submits nothing and returns itr_ref, for the
\* caller to await a message "already in the making".
AwaitStep ==
    /\ CallStep /\ call' = "move"
    /\ ith.handoff = 0 /\ ith.started /\ ith'.handoff = 1
    /\ cpc' = "idle" /\ items' = items
    /\ ret'[nreq'] = RefTerm(ith.ref)

\* C21: whenever a Prefetch call is told to await a message without new
\* work being submitted, a Move Work Item of the handle is queued or
\* executing at that moment.
C21_AwaitedMoveInFlight == [][AwaitStep => MovesInFlight # {}]_vars

\* ------------------------------------------------- the slot's reference
\* Move Work Item i carries the extra reference of the pending_move slot.
ExtraRef(i) == items[i].kind = "move" /\ items[i].held

\* Move Work Item i exists: it was built and is not deleted.
Alive(i) == i \in ItrItems

\* A worker thread has Move Work Item i in hand.
InHand(i) ==
    items[i].kind = "move" /\ \E w \in Threads : wk[w].pc # "idle" /\ wk[w].id = i

\* C22: the extra reference a Move Work Item carries for the pending_move
\* slot is dropped exactly once, by the explicit release or by the
\* completion.  Not twice: the reference is taken once, at construction,
\* exists exactly while the slot names the item, and an item that carries it
\* or that a worker has in hand is not deleted.  Not never: an item that no
\* worker and no queue holds any more is either deleted or still named by
\* the slot, and a deleted item carries no reference.
C22_ExtraRefDroppedOnce ==
    /\ [](\A i \in MoveIds :
            /\ ExtraRef(i) <=> (items[i].kind = "move" /\ ith.reuse = i)
            /\ ExtraRef(i) \/ InHand(i) => Alive(i)
            /\ items[i].kind = "move" /\ items[i].st = "idle" => ExtraRef(i)
            /\ items[i].kind = "move" /\ ~Alive(i) => ~ExtraRef(i) /\ ith.reuse # i)
    /\ [][\A i \in MoveIds : ~ExtraRef(i) /\ ExtraRef(i)' => items[i].st = "none"]_vars

\* Both ways have happened: one Move Work Item lost the slot's reference to
\* the explicit release of a later move while a worker was still running
\* it, and an earlier one lost it at its completion, its reply sent.
C22_Witness ==
    \E i, j \in MoveIds :
        /\ j < i /\ items[i].kind = "move" /\ items[i].st = "run" /\ ~items[i].held
        /\ ith.reuse > i
        /\ items[j].kind = "move" /\ items[j].st = "done" /\ Len(sent[j]) = 1

\* ------------------------------------------------------ the slot's item
\* Move Work Item i is retired: it ran to its end and was deleted, its reply
\* sent or its result discarded, or it was dropped at a rejected seek target
\* or a refused submission.
Retired(i) == items[i].kind = "move" /\ items[i].st \in {"done", "gone", "refused"}

\* Move Work Item i is outstanding: queued, executing, or completed with its
\* result buffered for the next Prefetch call to read.
Outstanding(i) == items[i].kind = "move" /\ items[i].st \in {"queued", "run", "idle"}

\* C23: the pending_move slot of the Iterator Handle is non-null only while
\* a move of the handle is outstanding, and never names a retired Move Work
\* Item.
C23_SlotOnlyWhileOutstanding ==
    /\ ith.reuse # NULL => Outstanding(ith.reuse)
    /\ \A i \in MoveIds : Retired(i) => ith.reuse # i

\* On an open iterator the slot is empty after a move was retired with its
\* reply sent and another was rejected at its submission.
C23_Witness ==
    /\ ith.st = "live" /\ ~ith.closing /\ ith.reuse = NULL
    /\ \E i \in MoveIds : items[i].kind = "move" /\ items[i].st = "done" /\ Len(sent[i]) = 1
    /\ \E i \in MoveIds : items[i].kind = "move" /\ items[i].st \in {"gone", "refused"}

\* ------------------------------------------------------ batch validation
\* The call of this step is a Write of batch list b on the open database.
WriteOf(b) ==
    /\ CallStep /\ call' = "write"
    /\ Resolvable(dbh) /\ dbh.st = "live"
    /\ \E ok \in BOOLEAN : async_write(b, ok)

\* Entry n is the first entry of list b that is no clear, put or delete.
Offending(b, n) ==
    /\ n \in 1..Len(BatchMenu[b])
    /\ BatchMenu[b][n].op \notin {"clear", "put", "delete"}
    /\ \A m \in 1..(n - 1) : BatchMenu[b][m].op \in {"clear", "put", "delete"}

\* The call of this step is answered by the one message
\* {error, caller_ref, {bad_write_action, Entry}} with the offending entry
\* of list b, and builds no Work Item.
RejectedWrite(b) ==
    /\ \E n \in 1..Len(BatchMenu[b]) :
           /\ Offending(b, n)
           /\ sent'[nreq'] = <<[ref |-> nreq', body |-> Term("bad_write_action", nreq', b, n)]>>
    /\ ret'[nreq'] = AtomOk
    /\ cpc' = "idle"
    /\ UNCHANGED <<items, queue, data, dbh, wk>>

\* C24: a Write whose batch list holds an entry that is no clear, {put,K,V}
\* or {delete,K} is rejected with an error reply carrying that entry; no
\* Write Work Item is built or submitted, and the database never holds any
\* part of such a list.
C24_BadBatchRejected ==
    /\ [][\A b \in BadBatches : WriteOf(b) => RejectedWrite(b)]_vars
    /\ [](\A i \in Ids : items[i].kind # "write")
    /\ [](\A k \in Keys : data[k] = 0)

\* --------------------------------------------------------------- progress
\* The pool is running: the module is loaded and not being unloaded.
PoolRunning == cpc = "idle"

\* C25: under fair scheduling of the workers, after any successful
\* initialization, every Work Item the pool accepted is eventually dequeued
\* and executed while the pool is running: none stays queued forever.
C25_AcceptedItemExecuted ==
    \A i \in Ids : (items[i].st = "queued") ~> (Executed(i) \/ ~PoolRunning)

\* The same for the loads that start at least one worker thread.
C25_ExecutedByNonEmptyPool ==
    \A i \in Ids :
        (items[i].st = "queued" /\ DOMAIN wk # {}) ~> (Executed(i) \/ ~PoolRunning)

\* --------------------------------------------------------- rejected moves
\* The step in which a move call returns {einval, itr_ref} for a seek
\* target that is no binary, or {error, itr_ref} for a refused submission.
RejectedMove ==
    /\ call' = "move" /\ nreq' \in Ids
    /\ ret[nreq'] = NoTerm
    /\ ret'[nreq'] \in {EinvalRef(ith.ref), ErrorRef(ith.ref)}

\* C26: a move request that is rejected synchronously leaves the handoff
\* flag, prefetch_started and the pending move of the Iterator Handle as
\* they were.
C26_RejectedMoveLeavesProtocol ==
    [][RejectedMove => /\ ith'.handoff = ith.handoff
                       /\ ith'.started = ith.started
                       /\ ith'.reuse = ith.reuse]_vars

====
